---- MODULE Spec2Model ----
(***************************************************************************)
(* State-machine model of the ScubaAI backend: the chat routes             *)
(* (conversations, messages, the AI proxy), the custom-instruction and     *)
(* system-setting routes, the account routes (registration, login, tokens, *)
(* profile) and the admin routes.  Every request handler is one atomic     *)
(* action; the generator of a streamed response is also modelled step by   *)
(* step.  The relational store is the state.                               *)
(***************************************************************************)
EXTENDS Integers, Sequences, FiniteSets, TLC

VARIABLES
    users,          \* User rows: [id, username, email, password_hash, is_admin, is_active]
    conversations,  \* Conversation rows: [id, user_id, title, updated_at]
    messages,       \* Message rows in created_at order: [id, conversation_id, role, content]
    instructions,   \* CustomInstruction rows: [id, user_id, name, content, is_default]
    settings,       \* SystemSetting rows: [id, key, value]
    key_unique,     \* whether the schema puts a UNIQUE constraint on SystemSetting.key
    now,            \* the database clock read by db.func.now()
    tokens,         \* the JWTs issued and not expired: [kind, identity]
    stream,         \* the streamed response being generated, if any
    resp            \* the response to the last request, with the request it answers, what
                    \* the provider was sent and did, and the rows returned (or deleted)

vars == <<users, conversations, messages, instructions, settings, key_unique, now,
         tokens, stream, resp>>

-----------------------------------------------------------------------------
(* Bounds of the model *)

MaxConvs == 2
MaxMsgs == 2
MaxNow == 1
MaxInstr == 3
MaxSettings == 2
MaxChunks == 2
MaxUsers == 3

-----------------------------------------------------------------------------
(* Values.  A Python str is a sequence of one-character strings; None is a  *)
(* sequence that is no str.                                                 *)

None == <<"None">>

NoneId == -1

S(c) == <<c>>

IsStr(x) == x # None

RECURSIVE lstrip(_)
lstrip(s) == IF s # <<>> /\ Head(s) = " " THEN lstrip(Tail(s)) ELSE s

RECURSIVE rstrip(_)
rstrip(s) == IF s # <<>> /\ s[Len(s)] = " " THEN rstrip(SubSeq(s, 1, Len(s) - 1)) ELSE s

strip(s) == rstrip(lstrip(s))

NonEmpty(x) == IsStr(x) /\ Len(x) > 0

\* fields.Str(required=True, validate=lambda x: len(x.strip()) > 0)
NonBlank(x) == IsStr(x) /\ Len(strip(x)) > 0

\* Python truthiness of an optional integer (None and 0 are falsy)
Truthy(i) == i # NoneId /\ i # 0

SetMax(ids) == IF ids = {} THEN 0 ELSE CHOOSE m \in ids : \A i \in ids : i <= m

\* the integer primary key the store gives a new row
NextId(ids) == SetMax(ids) + 1

MsgRows(msgs) == {msgs[i] : i \in 1..Len(msgs)}

MsgIds(msgs) == {msgs[i].id : i \in 1..Len(msgs)}

\* a key the JSON body does not have
Missing == <<"Missing">>

AdminName == <<"a", "d", "m">>

UserName == <<"b", "o", "b">>

AdminEmail == <<"a", "@", "x", ".", "i", "o">>

UserEmail == <<"b", "@", "x", ".", "i", "o">>

Password == <<"s", "e", "c", "r", "e", "t">>

\* User.set_password: the hash stored for a password
set_password(password) == <<"#">> \o password

\* User.check_password: the stored hash is the hash of this password
check_password(user, password) == user.password_hash = set_password(password)

\* no streamed response is being generated
NoStream == [pc |-> "none", user |-> 0, cid |-> 0, message_id |-> 0,
             received |-> <<>>, failed |-> FALSE,
             full_response |-> <<>>, events |-> <<>>]

-----------------------------------------------------------------------------
(* Responses *)

NoResp ==
    [op |-> "none", user |-> 0, target |-> 0, status |-> 0, error |-> "",
     content |-> None, iid |-> NoneId, message_id |-> 0,
     provider |-> None, chunks |-> <<>>, fails |-> FALSE,
     ai_calls |-> 0, prepared |-> <<>>, events |-> <<>>, body |-> {},
     name |-> None, username |-> None, email |-> None, password |-> None,
     current_password |-> None, issued |-> {}]

Response(op, u, target, status, error) ==
    [NoResp EXCEPT !.op = op, !.user = u, !.target = target,
                   !.status = status, !.error = error]

-----------------------------------------------------------------------------
(* services/ai_service.py *)

DefaultSystem == <<"S", "c", "u", "b", "a", "A", "I">>

\* AIService.prepare_messages
prepare_messages(msgs, custom_instruction) ==
    <<[role |-> "system",
       content |-> IF custom_instruction # None /\ custom_instruction # <<>>
                   THEN custom_instruction ELSE DefaultSystem]>> \o msgs

\* AIService.stream_response: the chunks it yields, those whose content is not None
RECURSIVE stream_response(_)
stream_response(chunks) ==
    IF chunks = <<>> THEN <<>>
    ELSE IF Head(chunks) # None
         THEN <<Head(chunks)>> \o stream_response(Tail(chunks))
         ELSE stream_response(Tail(chunks))

-----------------------------------------------------------------------------
(* The SQLAlchemy session *)

SessionCommitMissing(committed, pending) == committed

\* db.session.commit(): the pending rows join the committed ones
SessionCommit(committed, pending) == committed \o pending

SessionRollbackKeepsFlushed(committed, pending) == committed \o pending

\* db.session.rollback(): the pending rows are dropped
SessionRollback(committed, pending) == committed

OwnConversationAnyUser(u, cid) == {c \in conversations : c.id = cid}

OwnConversationUnchecked(u, cid) ==
    IF \E c \in conversations : c.id = cid /\ c.user_id = u
    THEN {c \in conversations : c.id = cid /\ c.user_id = u}
    ELSE {[id |-> cid, user_id |-> u, title |-> <<>>, updated_at |-> now]}

\* Conversation.query.filter_by(id=conversation_id, user_id=current_user.id).first()
OwnConversation(u, cid) == {c \in conversations : c.id = cid /\ c.user_id = u}

\* CustomInstruction.query.filter_by(id=..., user_id=current_user.id).first()
OwnInstruction(u, iid) == {i \in instructions : i.id = iid /\ i.user_id = u}

MessagesOfAnyConversation(msgs, cid) == msgs

\* Message.query.filter_by(conversation_id=conversation_id).order_by(created_at.asc()).all()
MessagesOf(msgs, cid) == SelectSeq(msgs, LAMBDA m : m.conversation_id = cid)

\* the {'role', 'content'} dicts built from the history
ContextOf(history) == [i \in 1..Len(history) |->
                         [role |-> history[i].role, content |-> history[i].content]]

TouchNothing(cid, t) == conversations

\* conversation.updated_at = db.func.now()
Touch(cid, t) == {IF c.id = cid THEN [c EXCEPT !.updated_at = t] ELSE c : c \in conversations}

RECURSIVE Concat(_)
Concat(chunks) == IF chunks = <<>> THEN <<>> ELSE Head(chunks) \o Concat(Tail(chunks))

\* the cascade from a Conversation to its Message rows (models.py)
CascadeDeleteMessages(msgs, cid) == SelectSeq(msgs, LAMBDA m : m.conversation_id # cid)

\* time passes between requests: db.func.now() is the time of the commit
Tick ==
    /\ now < MaxNow
    /\ now' = now + 1
    /\ UNCHANGED <<users, conversations, messages, instructions, settings, key_unique, resp, tokens, stream>>

-----------------------------------------------------------------------------
(* routes/chat_routes.py *)

create_conversation(u, title) ==
    /\ Cardinality(conversations) < MaxConvs
    /\ IF ~NonBlank(title)
       THEN /\ resp' = [Response("create_conversation", u, 0, 400, "Validation error") EXCEPT !.content = title]
            /\ UNCHANGED <<conversations, now>>
       ELSE LET id == NextId({c.id : c \in conversations})
            IN /\ conversations' = conversations \cup
                     {[id |-> id, user_id |-> u, title |-> strip(title), updated_at |-> now]}
               /\ UNCHANGED now
               /\ resp' = [Response("create_conversation", u, id, 201, "") EXCEPT !.content = title]
    /\ UNCHANGED <<users, messages, instructions, settings, key_unique, tokens, stream>>

get_conversation(u, cid) ==
    /\ IF OwnConversation(u, cid) = {}
       THEN resp' = Response("get_conversation", u, cid, 404, "Conversation not found")
       ELSE resp' = [Response("get_conversation", u, cid, 200, "") EXCEPT
                        !.body = {m \in MsgRows(messages) : m.conversation_id = cid}]
    /\ UNCHANGED <<users, conversations, messages, instructions, settings, key_unique, now, tokens, stream>>

\* the response of send_message or stream_message, with the request's body
ChatResponse(op, u, cid, content, iid, status, error) ==
    [Response(op, u, cid, status, error) EXCEPT !.content = content, !.iid = iid]

\* ai: what the provider does with the call, [ok |-> BOOLEAN, reply |-> str]
send_message(u, cid, content, iid, ai) ==
    /\ Len(messages) < MaxMsgs
    /\ IF ~NonBlank(content)
       THEN /\ resp' = ChatResponse("send_message", u, cid, content, iid, 400, "Validation error")
            /\ UNCHANGED <<conversations, messages, now>>
       ELSE IF OwnConversation(u, cid) = {}
       THEN /\ resp' = ChatResponse("send_message", u, cid, content, iid, 404, "Conversation not found")
            /\ UNCHANGED <<conversations, messages, now>>
       ELSE IF Truthy(iid) /\ OwnInstruction(u, iid) = {}
       THEN /\ resp' = ChatResponse("send_message", u, cid, content, iid, 404, "Custom instruction not found")
            /\ UNCHANGED <<conversations, messages, now>>
       ELSE LET custom_instruction == IF Truthy(iid) THEN OwnInstruction(u, iid) ELSE {}
                user_message == [id |-> NextId(MsgIds(messages)), conversation_id |-> cid,
                                 role |-> "user", content |-> content]
                message_history == MessagesOf(messages \o <<user_message>>, cid)
                context_messages == ContextOf(message_history)
                system_instruction == IF custom_instruction # {}
                                      THEN (CHOOSE i \in custom_instruction : TRUE).content
                                      ELSE None
                prepared == prepare_messages(context_messages, system_instruction)
                ai_message == [id |-> user_message.id + 1, conversation_id |-> cid,
                               role |-> "assistant", content |-> ai.reply]
            IN IF ai.ok
               THEN /\ messages' = SessionCommit(messages, <<user_message, ai_message>>)
                    /\ conversations' = Touch(cid, now)
                    /\ UNCHANGED now
                    /\ resp' = [ChatResponse("send_message", u, cid, content, iid, 200, "") EXCEPT
                                   !.ai_calls = 1, !.prepared = prepared,
                                   !.provider = ai.reply]
               ELSE /\ messages' = SessionRollback(messages, <<user_message>>)
                    /\ UNCHANGED <<conversations, now>>
                    /\ resp' = [ChatResponse("send_message", u, cid, content, iid, 500, "AI service error") EXCEPT
                                   !.ai_calls = 1, !.prepared = prepared, !.fails = TRUE]
    /\ UNCHANGED <<users, instructions, settings, key_unique, tokens, stream>>

DataEvent(chunk) == [type |-> "data", data |-> chunk]

DoneEvent == [type |-> "DONE", data |-> <<>>]

ErrorEvent == [type |-> "ERROR", data |-> <<>>]

\* script: what the provider does with the streamed call: it delivers
\* script.chunks (a chunk's content may be None) and then ends or, if
\* script.fails, raises
stream_message(u, cid, content, iid, script) ==
    /\ Len(messages) < MaxMsgs
    /\ IF ~NonBlank(content)
       THEN /\ resp' = ChatResponse("stream_message", u, cid, content, iid, 400, "Validation error")
            /\ UNCHANGED <<conversations, messages, now>>
       ELSE IF OwnConversation(u, cid) = {}
       THEN /\ resp' = ChatResponse("stream_message", u, cid, content, iid, 404, "Conversation not found")
            /\ UNCHANGED <<conversations, messages, now>>
       ELSE LET custom_instruction == IF Truthy(iid) THEN OwnInstruction(u, iid) ELSE {}
                user_message == [id |-> NextId(MsgIds(messages)), conversation_id |-> cid,
                                 role |-> "user", content |-> content]
                committed == SessionCommit(messages, <<user_message>>)
                message_history == MessagesOf(committed, cid)
                context_messages == ContextOf(message_history)
                system_instruction == IF custom_instruction # {}
                                      THEN (CHOOSE i \in custom_instruction : TRUE).content
                                      ELSE None
                prepared == prepare_messages(context_messages, system_instruction)
                chunks == stream_response(script.chunks)
                forwarded == [i \in 1..Len(chunks) |-> DataEvent(chunks[i])]
                full_response == Concat(chunks)
                ai_message == [id |-> user_message.id + 1, conversation_id |-> cid,
                               role |-> "assistant", content |-> full_response]
            IN IF ~script.fails
               THEN /\ messages' = SessionCommit(committed, <<ai_message>>)
                    /\ conversations' = Touch(cid, now)
                    /\ UNCHANGED now
                    /\ resp' = [ChatResponse("stream_message", u, cid, content, iid, 200, "") EXCEPT
                                   !.ai_calls = 1, !.prepared = prepared,
                                   !.chunks = script.chunks,
                                   !.events = forwarded \o <<DoneEvent>>]
               ELSE /\ messages' = committed
                    /\ UNCHANGED <<conversations, now>>
                    /\ resp' = [ChatResponse("stream_message", u, cid, content, iid, 200, "") EXCEPT
                                   !.ai_calls = 1, !.prepared = prepared,
                                   !.chunks = script.chunks, !.fails = TRUE,
                                   !.events = forwarded \o <<ErrorEvent>>]
    /\ UNCHANGED <<users, instructions, settings, key_unique, tokens, stream>>

delete_conversation(u, cid) ==
    /\ IF OwnConversation(u, cid) = {}
       THEN /\ resp' = Response("delete_conversation", u, cid, 404, "Conversation not found")
            /\ UNCHANGED <<conversations, messages>>
       ELSE /\ conversations' = conversations \ OwnConversation(u, cid)
            /\ messages' = CascadeDeleteMessages(messages, cid)
            /\ resp' = [Response("delete_conversation", u, cid, 200, "") EXCEPT
                           !.body = MsgRows(messages) \ MsgRows(messages')]
    /\ UNCHANGED <<users, instructions, settings, key_unique, now, tokens, stream>>

update_conversation_title(u, cid, title) ==
    /\ IF ~NonBlank(title)
       THEN /\ resp' = [Response("update_conversation_title", u, cid, 400, "Validation error") EXCEPT !.content = title]
            /\ UNCHANGED <<conversations, now>>
       ELSE IF OwnConversation(u, cid) = {}
       THEN /\ resp' = [Response("update_conversation_title", u, cid, 404, "Conversation not found") EXCEPT !.content = title]
            /\ UNCHANGED <<conversations, now>>
       ELSE /\ conversations' =
                  {IF c.id = cid THEN [c EXCEPT !.title = strip(title), !.updated_at = now]
                   ELSE c : c \in conversations}
            /\ UNCHANGED now
            /\ resp' = [Response("update_conversation_title", u, cid, 200, "") EXCEPT !.content = title]
    /\ UNCHANGED <<users, messages, instructions, settings, key_unique, tokens, stream>>

\* Message.query.filter_by(id=message_id, conversation_id=conversation_id).first()
MessageIn(mid, cid) == {m \in MsgRows(messages) : m.id = mid /\ m.conversation_id = cid}

delete_message(u, cid, mid) ==
    /\ IF OwnConversation(u, cid) = {}
       THEN /\ resp' = [Response("delete_message", u, cid, 404, "Conversation not found") EXCEPT !.message_id = mid]
            /\ UNCHANGED messages
       ELSE IF MessageIn(mid, cid) = {}
       THEN /\ resp' = [Response("delete_message", u, cid, 404, "Message not found") EXCEPT !.message_id = mid]
            /\ UNCHANGED messages
       ELSE /\ messages' = SelectSeq(messages, LAMBDA m : m \notin MessageIn(mid, cid))
            /\ resp' = [Response("delete_message", u, cid, 200, "") EXCEPT !.message_id = mid]
    /\ UNCHANGED <<users, conversations, instructions, settings, key_unique, now, tokens, stream>>

-----------------------------------------------------------------------------
(* routes/chat_routes.py: stream_message step by step.  The handler commits *)
(* the user message and returns the response; generate() then runs as the   *)
(* client reads it: one step per chunk the provider delivers, one for the   *)
(* commit of the reply, one for each terminal event.                        *)

forward_all(events, chunk) == Append(events, DataEvent(chunk))

\* AIService.stream_response yields a chunk whose content is not None, and
\* generate() forwards what it yields
forward(events, chunk) ==
    IF chunk # None THEN Append(events, DataEvent(chunk)) ELSE events

\* the handler up to 'return Response(stream_with_context(generate()), ...)'
stream_message_open(u, cid, content, iid) ==
    /\ Len(messages) < MaxMsgs
    /\ stream.pc = "none"
    /\ IF ~NonBlank(content)
       THEN /\ resp' = ChatResponse("stream_message", u, cid, content, iid, 400, "Validation error")
            /\ UNCHANGED <<messages, stream>>
       ELSE IF OwnConversation(u, cid) = {}
       THEN /\ resp' = ChatResponse("stream_message", u, cid, content, iid, 404, "Conversation not found")
            /\ UNCHANGED <<messages, stream>>
       ELSE LET custom_instruction == IF Truthy(iid) THEN OwnInstruction(u, iid) ELSE {}
                user_message == [id |-> NextId(MsgIds(messages)), conversation_id |-> cid,
                                 role |-> "user", content |-> content]
                committed == SessionCommit(messages, <<user_message>>)
                context_messages == ContextOf(MessagesOf(committed, cid))
                system_instruction == IF custom_instruction # {}
                                      THEN (CHOOSE i \in custom_instruction : TRUE).content
                                      ELSE None
            IN /\ messages' = committed
               /\ stream' = [NoStream EXCEPT !.pc = "open", !.user = u, !.cid = cid,
                                             !.message_id = user_message.id]
               /\ resp' = [ChatResponse("stream_message", u, cid, content, iid, 200, "") EXCEPT
                              !.message_id = user_message.id,
                              !.prepared = prepare_messages(context_messages, system_instruction)]
    /\ UNCHANGED <<users, conversations, instructions, settings, key_unique, now, tokens>>

\* the provider delivers one more chunk: full_response += chunk; yield 'data: chunk'
generate_chunk(chunk) ==
    /\ stream.pc = "open"
    /\ Len(stream.received) < MaxChunks
    /\ stream' = [stream EXCEPT
                     !.received = Append(@, chunk),
                     !.full_response = IF chunk # None THEN @ \o chunk ELSE @,
                     !.events = forward(@, chunk)]
    /\ UNCHANGED <<users, conversations, messages, instructions, settings, key_unique, now,
                   tokens, resp>>

\* the provider's stream ends: the reply is added, the conversation stamped, both committed
generate_save ==
    /\ stream.pc = "open"
    /\ LET ai_message == [id |-> NextId(MsgIds(messages)), conversation_id |-> stream.cid,
                          role |-> "assistant", content |-> stream.full_response]
       IN messages' = SessionCommit(messages, <<ai_message>>)
    /\ conversations' = Touch(stream.cid, now)
    /\ stream' = [stream EXCEPT !.pc = "saved"]
    /\ UNCHANGED <<users, instructions, settings, key_unique, now, tokens, resp>>

\* yield 'data: [DONE]'
generate_done ==
    /\ stream.pc = "saved"
    /\ stream' = [stream EXCEPT !.pc = "done", !.events = Append(@, DoneEvent)]
    /\ UNCHANGED <<users, conversations, messages, instructions, settings, key_unique, now,
                   tokens, resp>>

\* the provider raises, before the first chunk or after some: yield 'data: [ERROR]: ...'
generate_error ==
    /\ stream.pc = "open"
    /\ stream' = [stream EXCEPT !.pc = "done", !.failed = TRUE,
                                !.events = Append(@, ErrorEvent)]
    /\ UNCHANGED <<users, conversations, messages, instructions, settings, key_unique, now,
                   tokens, resp>>

\* the client stops reading: the generator is closed where it is suspended
generate_close ==
    /\ stream.pc = "open"
    /\ stream' = [stream EXCEPT !.pc = "closed"]
    /\ UNCHANGED <<users, conversations, messages, instructions, settings, key_unique, now,
                   tokens, resp>>

-----------------------------------------------------------------------------
(* routes/settings_routes.py: custom instructions *)

\* an optional bool of a request body: <<>> when the key is absent, else <<b>>
Get(opt, default) == IF opt = <<>> THEN default ELSE opt[1]

\* SettingsService.unset_default_instruction(user_id)
unset_default_instruction(rows, u) ==
    {IF i.user_id = u THEN [i EXCEPT !.is_default = FALSE] ELSE i : i \in rows}

InstructionResponse(op, u, iid, status, error) ==
    [Response(op, u, iid, status, error) EXCEPT !.iid = iid]

create_custom_instruction(u, name, content, is_default) ==
    /\ Cardinality(instructions) < MaxInstr
    /\ IF ~NonBlank(name) \/ ~NonBlank(content)
       THEN /\ resp' = [Response("create_custom_instruction", u, 0, 400, "Validation error")
                           EXCEPT !.content = content, !.name = name]
            /\ UNCHANGED instructions
       ELSE LET rows == IF Get(is_default, FALSE)
                        THEN unset_default_instruction(instructions, u)
                        ELSE instructions
                instruction == [id |-> NextId({i.id : i \in instructions}), user_id |-> u,
                                name |-> strip(name), content |-> strip(content),
                                is_default |-> Get(is_default, FALSE)]
            IN /\ instructions' = rows \cup {instruction}
               /\ resp' = [InstructionResponse("create_custom_instruction", u, instruction.id, 201, "")
                              EXCEPT !.content = content, !.name = name]
    /\ UNCHANGED <<users, conversations, messages, settings, key_unique, now, tokens, stream>>

UpdatedDefaultNoUnset(rows, u, instruction, is_default) == rows

\* update_custom_instruction, lines 97-100: the rows after the other defaults are unset
UpdatedDefault(rows, u, instruction, is_default) ==
    IF Get(is_default, FALSE) /\ ~instruction.is_default
    THEN unset_default_instruction(rows, u)
    ELSE rows

update_custom_instruction(u, iid, name, content, is_default) ==
    /\ IF ~NonBlank(name) \/ ~NonBlank(content)
       THEN /\ resp' = [InstructionResponse("update_custom_instruction", u, iid, 400, "Validation error")
                           EXCEPT !.content = content, !.name = name]
            /\ UNCHANGED instructions
       ELSE IF OwnInstruction(u, iid) = {}
       THEN /\ resp' = [InstructionResponse("update_custom_instruction", u, iid, 404,
                                            "Custom instruction not found")
                           EXCEPT !.content = content, !.name = name]
            /\ UNCHANGED instructions
       ELSE LET instruction == CHOOSE i \in OwnInstruction(u, iid) : TRUE
                rows == UpdatedDefault(instructions, u, instruction, is_default)
            IN /\ instructions' =
                     {IF i.id = iid
                      THEN [i EXCEPT !.name = strip(name), !.content = strip(content),
                                     !.is_default = Get(is_default, instruction.is_default)]
                      ELSE i : i \in rows}
               /\ resp' = [InstructionResponse("update_custom_instruction", u, iid, 200, "")
                              EXCEPT !.content = content, !.name = name]
    /\ UNCHANGED <<users, conversations, messages, settings, key_unique, now, tokens, stream>>

delete_custom_instruction(u, iid) ==
    /\ IF OwnInstruction(u, iid) = {}
       THEN /\ resp' = InstructionResponse("delete_custom_instruction", u, iid, 404,
                                           "Custom instruction not found")
            /\ UNCHANGED instructions
       ELSE /\ instructions' = instructions \ OwnInstruction(u, iid)
            /\ resp' = InstructionResponse("delete_custom_instruction", u, iid, 200, "")
    /\ UNCHANGED <<users, conversations, messages, settings, key_unique, now, tokens, stream>>

set_default_instruction(u, iid) ==
    /\ IF OwnInstruction(u, iid) = {}
       THEN /\ resp' = InstructionResponse("set_default_instruction", u, iid, 404,
                                           "Custom instruction not found")
            /\ UNCHANGED instructions
       ELSE /\ instructions' =
                  {IF i.id = iid THEN [i EXCEPT !.is_default = TRUE] ELSE i :
                      i \in unset_default_instruction(instructions, u)}
            /\ resp' = InstructionResponse("set_default_instruction", u, iid, 200, "")
    /\ UNCHANGED <<users, conversations, messages, settings, key_unique, now, tokens, stream>>

\* CustomInstruction.query.filter_by(user_id=current_user.id, is_default=True).first()
get_user_preferences(u) ==
    /\ LET defaults == {i \in instructions : i.user_id = u /\ i.is_default}
       IN IF defaults = {}
          THEN resp' = Response("get_user_preferences", u, 0, 200, "")
          ELSE \E d \in defaults :
                  resp' = [Response("get_user_preferences", u, 0, 200, "") EXCEPT !.body = {d}]
    /\ UNCHANGED <<users, conversations, messages, instructions, settings, key_unique, now, tokens, stream>>

-----------------------------------------------------------------------------
(* routes/settings_routes.py: system settings *)

\* current_user.is_admin
is_admin_always(u) == TRUE

is_admin(u) == \E r \in users : r.id = u /\ r.is_admin

get_system_settings(u) ==
    /\ resp' = [Response("get_system_settings", u, 0, 200, "") EXCEPT !.body = settings]
    /\ UNCHANGED <<users, conversations, messages, instructions, settings, key_unique, now, tokens, stream>>

\* SystemSetting.query.filter_by(key=...).first()
SettingsWithKey(key) == {s \in settings : s.key = key}

\* the commit of rows that break the UNIQUE constraint on SystemSetting.key raises
BreaksUniqueKey(rows) ==
    key_unique /\ \E a, b \in rows : a.id # b.id /\ a.key = b.key

create_system_setting(u, key, value) ==
    /\ Cardinality(settings) < MaxSettings
    /\ LET R(status, error) == [Response("create_system_setting", u, 0, status, error)
                                   EXCEPT !.content = key]
       IN IF ~is_admin(u)
          THEN /\ resp' = R(403, "Admin access required")
               /\ UNCHANGED settings
          ELSE IF ~NonBlank(key) \/ ~IsStr(value)
          THEN /\ resp' = R(400, "Validation error")
               /\ UNCHANGED settings
          ELSE IF SettingsWithKey(key) # {}
          THEN /\ resp' = R(409, "System setting with this key already exists")
               /\ UNCHANGED settings
          ELSE LET setting == [id |-> NextId({s.id : s \in settings}),
                               key |-> strip(key), value |-> value]
               IN IF BreaksUniqueKey(settings \cup {setting})
                  THEN /\ resp' = R(500, "IntegrityError")
                       /\ UNCHANGED settings
                  ELSE /\ settings' = settings \cup {setting}
                       /\ resp' = [R(201, "") EXCEPT !.target = setting.id]
    /\ UNCHANGED <<users, conversations, messages, instructions, key_unique, now, tokens, stream>>

update_system_setting(u, sid, key, value) ==
    /\ LET R(status, error) == [Response("update_system_setting", u, sid, status, error)
                                   EXCEPT !.content = key]
       IN IF ~is_admin(u)
          THEN /\ resp' = R(403, "Admin access required")
               /\ UNCHANGED settings
          ELSE IF ~NonBlank(key) \/ ~IsStr(value)
          THEN /\ resp' = R(400, "Validation error")
               /\ UNCHANGED settings
          ELSE IF {s \in settings : s.id = sid} = {}
          THEN /\ resp' = R(404, "System setting not found")
               /\ UNCHANGED settings
          ELSE LET rows == {IF s.id = sid THEN [s EXCEPT !.key = strip(key), !.value = value]
                            ELSE s : s \in settings}
               IN IF BreaksUniqueKey(rows)
                  THEN /\ resp' = R(500, "IntegrityError")
                       /\ UNCHANGED settings
                  ELSE /\ settings' = rows
                       /\ resp' = R(200, "")
    /\ UNCHANGED <<users, conversations, messages, instructions, key_unique, now, tokens, stream>>

delete_system_setting(u, sid) ==
    /\ IF ~is_admin(u)
       THEN /\ resp' = Response("delete_system_setting", u, sid, 403, "Admin access required")
            /\ UNCHANGED settings
       ELSE IF {s \in settings : s.id = sid} = {}
       THEN /\ resp' = Response("delete_system_setting", u, sid, 404, "System setting not found")
            /\ UNCHANGED settings
       ELSE /\ settings' = {s \in settings : s.id # sid}
            /\ resp' = Response("delete_system_setting", u, sid, 200, "")
    /\ UNCHANGED <<users, conversations, messages, instructions, key_unique, now, tokens, stream>>

get_system_setting_by_key(u, key) ==
    /\ IF SettingsWithKey(key) = {}
       THEN resp' = [Response("get_system_setting_by_key", u, 0, 404, "System setting not found")
                        EXCEPT !.content = key]
       ELSE \E s \in SettingsWithKey(key) :
               resp' = [Response("get_system_setting_by_key", u, s.id, 200, "")
                           EXCEPT !.content = key, !.body = {s}]
    /\ UNCHANGED <<users, conversations, messages, instructions, settings, key_unique, now, tokens, stream>>

-----------------------------------------------------------------------------
(* routes/auth_routes.py: admin-only routes *)

list_users(u) ==
    /\ IF ~is_admin(u)
       THEN resp' = Response("list_users", u, 0, 403, "Admin access required")
       ELSE resp' = [Response("list_users", u, 0, 200, "") EXCEPT !.body = users]
    /\ UNCHANGED <<users, conversations, messages, instructions, settings, key_unique, now, tokens, stream>>

toggle_user_active(u, user_id) ==
    /\ IF ~is_admin(u)
       THEN /\ resp' = Response("toggle_user_active", u, user_id, 403, "Admin access required")
            /\ UNCHANGED users
       ELSE IF {r \in users : r.id = user_id} = {}
       THEN /\ resp' = Response("toggle_user_active", u, user_id, 404, "User not found")
            /\ UNCHANGED users
       ELSE /\ users' = {IF r.id = user_id THEN [r EXCEPT !.is_active = ~r.is_active] ELSE r :
                            r \in users}
            /\ resp' = Response("toggle_user_active", u, user_id, 200, "")
    /\ UNCHANGED <<conversations, messages, instructions, settings, key_unique, now, tokens, stream>>

-----------------------------------------------------------------------------
(* routes/auth_routes.py: accounts and tokens *)

\* fields.Email: one "@" after a non-empty user part, then a domain of a label,
\* a dot and a top-level label of two characters or more
ValidEmail(e) ==
    /\ IsStr(e) /\ e # Missing
    /\ \E i \in 2..Len(e) :
          /\ e[i] = "@"
          /\ \A j \in 1..Len(e) : e[j] = "@" => j = i
          /\ \A j \in 1..(i - 1) : e[j] \notin {".", " "}
          /\ \E k \in (i + 2)..(Len(e) - 2) :
                /\ e[k] = "."
                /\ \A j \in (i + 1)..Len(e) : j # k => e[j] \notin {".", " "}

\* LoginSchema
LoginSchema(username, password) ==
    IsStr(username) /\ IsStr(password) /\ Len(password) >= 6

\* RegisterSchema
RegisterSchema(username, email, password) ==
    /\ IsStr(username) /\ Len(username) >= 3
    /\ ValidEmail(email)
    /\ IsStr(password) /\ Len(password) >= 6

\* ChangePasswordSchema
ChangePasswordSchema(current_password, new_password) ==
    IsStr(current_password) /\ IsStr(new_password) /\ Len(new_password) >= 6

\* User(username=..., email=...) with the column defaults, then set_password
NewUser(username, email, password) ==
    [id |-> NextId({r.id : r \in users}), username |-> username, email |-> email,
     password_hash |-> set_password(password), is_admin |-> FALSE, is_active |-> TRUE]

AuthResponse(op, u, status, error, username, email, password) ==
    [Response(op, u, 0, status, error) EXCEPT
        !.username = username, !.email = email, !.password = password]

email_taken_unchecked(email, u) == FALSE

\* existing_user and existing_user.id != current_user.id
email_taken_by_other(email, u) == \E r \in users : r.email = email /\ r.id # u

\* create_access_token / create_refresh_token(identity=user)
access_token(user) == [kind |-> "access", identity |-> user.id]

refresh_token(user) == [kind |-> "refresh", identity |-> user.id]

authenticate_by_name(username, password) == {r \in users : r.username = username}

\* AuthService.authenticate_user: the rows filter_by(username=...).first() can return
\* that also pass check_password
authenticate_user(username, password) ==
    {r \in users : r.username = username /\ check_password(r, password)}

login(username, password) ==
    /\ IF ~LoginSchema(username, password)
       THEN /\ resp' = AuthResponse("login", 0, 400, "Validation error",
                                    username, None, password)
            /\ UNCHANGED tokens
       ELSE IF authenticate_user(username, password) = {}
       THEN /\ resp' = AuthResponse("login", 0, 401, "Invalid credentials",
                                    username, None, password)
            /\ UNCHANGED tokens
       ELSE \E user \in authenticate_user(username, password) :
              IF ~user.is_active
              THEN /\ resp' = AuthResponse("login", 0, 401, "Account is disabled",
                                           username, None, password)
                   /\ UNCHANGED tokens
              ELSE /\ tokens' = tokens \cup {access_token(user), refresh_token(user)}
                   /\ resp' = [AuthResponse("login", 0, 200, "", username, None, password)
                                 EXCEPT !.target = user.id,
                                        !.issued = {access_token(user), refresh_token(user)}]
    /\ UNCHANGED <<users, conversations, messages, instructions, settings, key_unique, now, stream>>

register(username, email, password) ==
    /\ Cardinality(users) < MaxUsers
    /\ IF ~RegisterSchema(username, email, password)
       THEN /\ resp' = AuthResponse("register", 0, 400, "Validation error",
                                    username, email, password)
            /\ UNCHANGED users
       ELSE IF \E r \in users : r.username = username
       THEN /\ resp' = AuthResponse("register", 0, 409, "Username already exists",
                                    username, email, password)
            /\ UNCHANGED users
       ELSE IF \E r \in users : r.email = email
       THEN /\ resp' = AuthResponse("register", 0, 409, "Email already exists",
                                    username, email, password)
            /\ UNCHANGED users
       ELSE /\ users' = users \cup {NewUser(username, email, password)}
            /\ resp' = [AuthResponse("register", 0, 201, "", username, email, password)
                          EXCEPT !.target = NewUser(username, email, password).id]
    /\ UNCHANGED <<conversations, messages, instructions, settings, key_unique, now, tokens, stream>>

\* the caller presents a refresh token; identity is the user id it carries
refresh(identity) ==
    /\ [kind |-> "refresh", identity |-> identity] \in tokens
    /\ IF \A r \in users : r.id = identity => ~r.is_active
       THEN /\ resp' = Response("refresh", identity, identity, 404,
                                "User not found or inactive")
            /\ UNCHANGED tokens
       ELSE \E user \in {r \in users : r.id = identity} :
              /\ tokens' = tokens \cup {access_token(user)}
              /\ resp' = [Response("refresh", identity, identity, 200, "")
                            EXCEPT !.issued = {access_token(user)}]
    /\ UNCHANGED <<users, conversations, messages, instructions, settings, key_unique, now, stream>>

\* email is Missing when the body has no 'email' key; a null email is stored only
\* when the column accepts it (nullable), else the commit fails
update_profile(u, email, nullable) ==
    /\ IF email # Missing /\ email_taken_by_other(email, u)
       THEN /\ resp' = AuthResponse("update_profile", u, 409, "Email already exists",
                                    None, email, None)
            /\ UNCHANGED users
       ELSE IF email = None /\ ~nullable
       THEN /\ resp' = AuthResponse("update_profile", u, 500, "Internal Server Error",
                                    None, email, None)
            /\ UNCHANGED users
       ELSE /\ users' = {IF r.id = u /\ email # Missing THEN [r EXCEPT !.email = email]
                         ELSE r : r \in users}
            /\ resp' = AuthResponse("update_profile", u, 200, "", None, email, None)
    /\ UNCHANGED <<conversations, messages, instructions, settings, key_unique, now, tokens, stream>>

change_password(u, current_password, new_password) ==
    /\ IF ~ChangePasswordSchema(current_password, new_password)
       THEN /\ resp' = [AuthResponse("change_password", u, 400, "Validation error",
                                     None, None, new_password)
                          EXCEPT !.current_password = current_password]
            /\ UNCHANGED users
       ELSE IF \E r \in users : r.id = u /\ ~check_password(r, current_password)
       THEN /\ resp' = [AuthResponse("change_password", u, 400,
                                     "Current password is incorrect",
                                     None, None, new_password)
                          EXCEPT !.current_password = current_password]
            /\ UNCHANGED users
       ELSE /\ users' = {IF r.id = u
                         THEN [r EXCEPT !.password_hash = set_password(new_password)]
                         ELSE r : r \in users}
            /\ resp' = [AuthResponse("change_password", u, 200, "",
                                     None, None, new_password)
                          EXCEPT !.current_password = current_password]
    /\ UNCHANGED <<conversations, messages, instructions, settings, key_unique, now, tokens, stream>>

-----------------------------------------------------------------------------
(* Requests: the callers and the bodies they send *)

UserIds == {r.id : r \in users}

ConvIds == 1..MaxConvs

MessageIds == 1..(MaxMsgs + 1)

Titles == {S(" "), <<"a", " ">>}

Contents == {S(" "), <<" ", "a">>}

Replies == {S("x")}

AiOutcomes == {[ok |-> TRUE, reply |-> r] : r \in Replies} \cup {[ok |-> FALSE, reply |-> None]}

ChunkSeqs(n) == UNION {[1..k -> {None, S("x"), S("y")}] : k \in 0..n}

Scripts(n) == {[chunks |-> c, fails |-> f] : c \in ChunkSeqs(n), f \in BOOLEAN}

-----------------------------------------------------------------------------
(* The store after the application is set up: the admin account and one    *)
(* registered user, no conversation, instruction or setting.               *)

InitStore ==
    /\ users = {[id |-> 1, username |-> AdminName, email |-> AdminEmail,
                 password_hash |-> set_password(Password),
                 is_admin |-> TRUE, is_active |-> TRUE],
                [id |-> 2, username |-> UserName, email |-> UserEmail,
                 password_hash |-> set_password(Password),
                 is_admin |-> FALSE, is_active |-> TRUE]}
    /\ tokens = {}
    /\ stream = NoStream
    /\ conversations = {}
    /\ messages = <<>>
    /\ instructions = {}
    /\ settings = {}
    /\ now = 0
    /\ resp = NoResp

\* the schema of SystemSetting is that of models.py: with or without UNIQUE on key
Init == InitStore /\ key_unique \in BOOLEAN

\* the chat and instruction routes never read the SystemSetting schema
InitChat == InitStore /\ key_unique = TRUE

ChatScripts == {[chunks |-> <<S("x")>>, fails |-> f] : f \in BOOLEAN}

(* The chat routes, without custom instructions *)
\* the response goes out; the server takes the next request
Return ==
    /\ resp # NoResp
    /\ stream.pc \notin {"open", "saved"}
    /\ resp' = NoResp
    /\ stream' = NoStream
    /\ UNCHANGED <<users, conversations, messages, instructions, settings, key_unique, now, tokens>>

\* requests are served one at a time
Idle == resp = NoResp

ChatRequest ==
    \/ \E u \in UserIds, t \in Titles : create_conversation(u, t)
    \/ \E u \in UserIds, c \in ConvIds : get_conversation(u, c)
    \/ \E u \in UserIds, c \in ConvIds, x \in Contents, ai \in AiOutcomes :
          send_message(u, c, x, NoneId, ai)
    \/ \E u \in UserIds, c \in ConvIds, x \in Contents, sc \in ChatScripts :
          stream_message(u, c, x, NoneId, sc)
    \/ \E u \in UserIds, c \in ConvIds : delete_conversation(u, c)
    \/ \E u \in UserIds, c \in ConvIds, t \in Titles : update_conversation_title(u, c, t)
    \/ \E u \in UserIds, c \in ConvIds, m \in MessageIds : delete_message(u, c, m)

NextChat == (Idle /\ ChatRequest) \/ Return

SpecChat == InitChat /\ [][NextChat]_vars

(* A chat turn against the clock: conversations, both kinds of turn, time *)
TurnRequest ==
    \/ \E u \in UserIds, t \in Titles : create_conversation(u, t)
    \/ \E u \in UserIds, c \in ConvIds, x \in Contents, ai \in AiOutcomes :
          send_message(u, c, x, NoneId, ai)
    \/ \E u \in UserIds, c \in ConvIds, x \in Contents, sc \in ChatScripts :
          stream_message(u, c, x, NoneId, sc)

NextTurn == (Idle /\ (Tick \/ TurnRequest)) \/ Return

SpecTurn == InitChat /\ [][NextTurn]_vars

(* Streamed turns, with every delivery of up to MaxChunks chunks *)
StreamRequest ==
    \/ \E u \in UserIds, t \in Titles : create_conversation(u, t)
    \/ \E u \in UserIds, c \in ConvIds, x \in Contents, sc \in Scripts(MaxChunks) :
          stream_message(u, c, x, NoneId, sc)

NextStream == (Idle /\ StreamRequest) \/ Return

SpecStream == InitChat /\ [][NextStream]_vars

(* Chat turns that name a custom instruction *)
InstructionIds == {NoneId} \cup (0..MaxInstr)

InstructionTexts == {S("p"), <<"q", " ">>}

InstrChatRequest ==
    \/ \E u \in UserIds, t \in InstructionTexts : create_custom_instruction(u, S("n"), t, <<>>)
    \/ \E u \in UserIds : create_conversation(u, S("t"))
    \/ \E u \in UserIds, c \in ConvIds, i \in InstructionIds, ai \in AiOutcomes :
          send_message(u, c, S("a"), i, ai)
    \/ \E u \in UserIds, c \in ConvIds, i \in InstructionIds, sc \in ChatScripts :
          stream_message(u, c, S("a"), i, sc)

NextInstrChat == (Idle /\ InstrChatRequest) \/ Return

SpecInstrChat == InitChat /\ [][NextInstrChat]_vars

(* The custom-instruction routes *)
Names == {S(" "), <<" ", "n">>}

OptBools == {<<>>, <<TRUE>>, <<FALSE>>}

InstrRequest ==
    \/ \E u \in UserIds, n \in Names, t \in InstructionTexts \cup {S(" ")}, d \in OptBools :
          create_custom_instruction(u, n, t, d)
    \/ \E u \in UserIds, i \in 1..MaxInstr, n \in Names, t \in InstructionTexts, d \in OptBools :
          update_custom_instruction(u, i, n, t, d)
    \/ \E u \in UserIds, i \in 1..MaxInstr : delete_custom_instruction(u, i)
    \/ \E u \in UserIds, i \in 1..MaxInstr : set_default_instruction(u, i)
    \/ \E u \in UserIds : get_user_preferences(u)

NextInstr == (Idle /\ InstrRequest) \/ Return

SpecInstr == InitChat /\ [][NextInstr]_vars

(* The system-setting routes and the admin routes *)
Keys == {None, S(" "), S("a"), <<" ", "a">>}

Values == {None, S("v")}

SettingIds == 1..MaxSettings

SettingsRequest ==
    \/ \E u \in UserIds : get_system_settings(u)
    \/ \E u \in UserIds, k \in Keys, v \in Values : create_system_setting(u, k, v)
    \/ \E u \in UserIds, i \in SettingIds, k \in Keys, v \in Values :
          update_system_setting(u, i, k, v)
    \/ \E u \in UserIds, i \in SettingIds : delete_system_setting(u, i)
    \/ \E u \in UserIds, k \in Keys \ {None} : get_system_setting_by_key(u, k)
    \/ \E u \in UserIds : list_users(u)
    \/ \E u \in UserIds, i \in UserIds \cup {3} : toggle_user_active(u, i)

NextSettings == (Idle /\ SettingsRequest) \/ Return

SpecSettings == Init /\ [][NextSettings]_vars

-----------------------------------------------------------------------------
(* The account routes: registration, login, token refresh, profile, and the *)
(* admin's switch that disables an account                                  *)

EveName == <<"e", "v", "e">>

EveEmail == <<"e", "@", "x", ".", "i", "o">>

WrongPassword == <<"s", "e", "c", "r", "e", "T">>

ShortPassword == <<"p", "w">>

AuthUsernames == {UserName, EveName, <<"e", "v">>, None}

AuthEmails == {UserEmail, EveEmail, <<"e", "@", "x">>, None}

ProfileEmails == {Missing, None, AdminEmail, UserEmail, EveEmail}

AuthRequest ==
    \/ \E username \in AuthUsernames, email \in AuthEmails,
          password \in {Password, ShortPassword} :
          register(username, email, password)
    \/ \E username \in {UserName, EveName, None},
          password \in {Password, WrongPassword, ShortPassword} :
          login(username, password)
    \/ \E identity \in UserIds : refresh(identity)
    \/ \E u \in UserIds, email \in ProfileEmails, nullable \in BOOLEAN :
          update_profile(u, email, nullable)
    \/ \E u \in UserIds, user_id \in UserIds : toggle_user_active(u, user_id)

NextAuth == (Idle /\ AuthRequest) \/ Return

SpecAuth == InitChat /\ [][NextAuth]_vars

-----------------------------------------------------------------------------
(* The routes that validate a body, called with bodies that fail the schema *)
(* (a missing field, a blank one, a short one) and with bodies that pass    *)

Fields == {None, S(" "), S("a")}

ValidationRequest ==
    \/ \E u \in {1, 2}, title \in Fields : create_conversation(u, title)
    \/ \E u \in {1, 2}, cid \in ConvIds, title \in Fields :
          update_conversation_title(u, cid, title)
    \/ \E u \in {1, 2}, cid \in ConvIds, content \in Fields :
          send_message(u, cid, content, NoneId, [ok |-> TRUE, reply |-> S("x")])
    \/ \E u \in {1, 2}, cid \in ConvIds, content \in Fields, fails \in BOOLEAN :
          stream_message(u, cid, content, NoneId, [chunks |-> <<S("x")>>, fails |-> fails])
    \/ \E name \in Fields, content \in Fields :
          create_custom_instruction(2, name, content, <<>>)
    \/ \E iid \in 1..2, name \in Fields, content \in Fields :
          update_custom_instruction(2, iid, name, content, <<>>)
    \/ \E username \in {EveName, <<"e", "v">>, None}, email \in {EveEmail, None},
          password \in {Password, ShortPassword, None} :
          register(username, email, password)
    \/ \E current_password \in {Password, WrongPassword, None},
          new_password \in {WrongPassword, ShortPassword, None} :
          change_password(2, current_password, new_password)

NextValidation == (Idle /\ ValidationRequest) \/ Return

SpecValidation == InitChat /\ [][NextValidation]_vars

-----------------------------------------------------------------------------
(* Streamed turns step by step, next to plain turns *)

Chunks == {None, S("x"), S("y")}

StreamStepsRequest ==
    \/ \E u \in UserIds, title \in Titles : create_conversation(u, title)
    \/ \E u \in UserIds, cid \in ConvIds, content \in Contents :
          stream_message_open(u, cid, content, NoneId)
    \/ \E u \in UserIds, cid \in ConvIds, content \in Contents, ai \in AiOutcomes :
          send_message(u, cid, content, NoneId, ai)

GenerateStep ==
    \/ \E chunk \in Chunks : generate_chunk(chunk)
    \/ generate_save
    \/ generate_done
    \/ generate_error
    \/ generate_close

NextStreamSteps == (Idle /\ StreamStepsRequest) \/ GenerateStep \/ Return

SpecStreamSteps == InitChat /\ [][NextStreamSteps]_vars

-----------------------------------------------------------------------------
(* Turns whose messages differ, in conversations of both users *)

ContextContents == {S("a"), S("b")}

ContextRequest ==
    \/ \E u \in UserIds : create_conversation(u, S("t"))
    \/ \E u \in UserIds, cid \in ConvIds, content \in ContextContents, ai \in AiOutcomes :
          send_message(u, cid, content, NoneId, ai)
    \/ \E u \in UserIds, cid \in ConvIds, content \in ContextContents, fails \in BOOLEAN :
          stream_message(u, cid, content, NoneId, [chunks |-> <<S("x")>>, fails |-> fails])

NextContext == (Idle /\ ContextRequest) \/ Return

SpecContext == InitChat /\ [][NextContext]_vars

-----------------------------------------------------------------------------
(* Properties *)

OwnershipOps == {"get_conversation", "send_message", "stream_message",
                 "delete_conversation", "update_conversation_title", "delete_message"}

ValidatedOps == {"send_message", "stream_message", "update_conversation_title"}

\* conversation cid exists and belongs to somebody other than u
NotOwnedBy(u, cid) == \E c \in conversations : c.id = cid /\ c.user_id # u

\* message mid exists and belongs to a conversation other than cid
InOtherConversation(mid, cid) ==
    \E m \in MsgRows(messages) : m.id = mid /\ m.conversation_id # cid

\* C1 as stated: every one of the six conversation routes, called by a user on a
\* conversation of another user, returns 404 'Conversation not found', calls
\* the provider zero times and leaves conversations and messages unchanged;
\* delete_message with a message of another conversation returns 404 and
\* deletes nothing.
C1_AlwaysNotFound ==
    [][/\ (resp'.op \in OwnershipOps /\ NotOwnedBy(resp'.user, resp'.target))
          => /\ resp'.status = 404
             /\ resp'.error = "Conversation not found"
             /\ resp'.ai_calls = 0
             /\ UNCHANGED <<conversations, messages>>
       /\ (resp'.op = "delete_message" /\ InOtherConversation(resp'.message_id, resp'.target))
          => /\ resp'.status = 404
             /\ UNCHANGED messages]_vars

\* C1, amended: a route called by a user on a conversation of another user
\* returns 404 'Conversation not found', or 400 'Validation error' when the
\* route validates a body (send_message, stream_message,
\* update_conversation_title) and the body is invalid; either way the provider
\* is called zero times and conversations and messages are unchanged;
\* delete_message with a message of another conversation returns 404 and
\* deletes nothing.
C1_OwnershipCheck ==
    [][/\ (resp'.op \in OwnershipOps /\ NotOwnedBy(resp'.user, resp'.target))
          => /\ IF resp'.op \in ValidatedOps /\ ~NonBlank(resp'.content)
                THEN resp'.status = 400 /\ resp'.error = "Validation error"
                ELSE resp'.status = 404 /\ resp'.error = "Conversation not found"
             /\ resp'.ai_calls = 0
             /\ UNCHANGED <<conversations, messages>>
       /\ (resp'.op = "delete_message" /\ InOtherConversation(resp'.message_id, resp'.target))
          => /\ resp'.status = 404
             /\ UNCHANGED messages]_vars

\* a valid turn was streamed at another user's conversation that holds messages
C1_Witness ==
    /\ resp.op = "stream_message"
    /\ NonBlank(resp.content)
    /\ NotOwnedBy(resp.user, resp.target)
    /\ MessagesOf(messages, resp.target) # <<>>
    /\ resp.status = 404

\* C2: whenever the AI call made by send_message fails, the response is 500
\* and the messages and every conversation (its updated_at included) are what
\* they were before the request.
C2_FailedTurnIsAtomic ==
    [][(resp'.op = "send_message" /\ resp'.ai_calls = 1 /\ resp'.fails)
          => /\ resp'.status = 500
             /\ messages' = messages
             /\ conversations' = conversations]_vars

\* the AI call failed in a conversation that holds messages and was last
\* stamped before the request
C2_Witness ==
    /\ resp.op = "send_message"
    /\ resp.fails
    /\ resp.status = 500
    /\ MessagesOf(messages, resp.target) # <<>>
    /\ \E c \in conversations : c.id = resp.target /\ c.updated_at < now

\* C3: a successful send_message on an owned conversation appends exactly two
\* messages to it, the user's with the request's content and then the
\* assistant's with the provider's reply, stamps the conversation's updated_at
\* in the same commit, and changes nothing else in messages or conversations.
C3_TurnAppendsTwo ==
    [][(resp'.op = "send_message" /\ resp'.status = 200)
          => /\ OwnConversation(resp'.user, resp'.target) # {}
             /\ Len(messages') = Len(messages) + 2
             /\ SubSeq(messages', 1, Len(messages)) = messages
             /\ LET m1 == messages'[Len(messages) + 1]
                    m2 == messages'[Len(messages) + 2]
                IN /\ m1.conversation_id = resp'.target
                   /\ m1.role = "user"
                   /\ m1.content = resp'.content
                   /\ m2.conversation_id = resp'.target
                   /\ m2.role = "assistant"
                   /\ m2.content = resp'.provider
                   /\ m1.id # m2.id
                   /\ {m1.id, m2.id} \cap MsgIds(messages) = {}
             /\ \A c \in conversations :
                   IF c.id = resp'.target
                   THEN [c EXCEPT !.updated_at = now] \in conversations'
                   ELSE c \in conversations'
             /\ Cardinality(conversations') = Cardinality(conversations)]_vars

\* a turn succeeded, at a later time than the conversation was created, while
\* another conversation holds messages
C3_Witness ==
    /\ resp.op = "send_message"
    /\ resp.status = 200
    /\ now > 0
    /\ \E c \in conversations : c.id = resp.target /\ c.updated_at = now
    /\ \E m \in MsgRows(messages) : m.conversation_id # resp.target
    /\ Len(MessagesOf(messages, resp.target)) >= 2

Last(seq) == seq[Len(seq)]

\* C4 as stated: when the streamed call fails during stream_message, the reply
\* is still obtained by another delivery and persisted as the conversation's
\* assistant message.
C4_FallbackPersistsReply ==
    (resp.op = "stream_message" /\ resp.fails)
       => LET history == MessagesOf(messages, resp.target)
          IN history # <<>> /\ Last(history).role = "assistant"

\* C4, amended: when the streamed call fails during stream_message, there is
\* no other delivery: the provider has been called once, the stream ends with
\* the '[ERROR]' event and without '[DONE]', no assistant message is
\* persisted, and the turn leaves exactly the user message committed before
\* the call.
C4_StreamFailureEndsInError ==
    [][(resp'.op = "stream_message" /\ resp'.fails)
          => /\ resp'.ai_calls = 1
             /\ resp'.events # <<>>
             /\ Last(resp'.events).type = "ERROR"
             /\ \A i \in 1..Len(resp'.events) : resp'.events[i].type # "DONE"
             /\ messages' = Append(messages,
                                   [id |-> NextId(MsgIds(messages)),
                                    conversation_id |-> resp'.target,
                                    role |-> "user", content |-> resp'.content])
             /\ conversations' = conversations]_vars

\* the provider failed after it had delivered a chunk
C4_Witness ==
    /\ resp.op = "stream_message"
    /\ resp.fails
    /\ \E i \in 1..Len(resp.events) : resp.events[i].type = "data"
    /\ Last(MessagesOf(messages, resp.target)).role = "user"

AdminOps == {"create_system_setting", "update_system_setting", "delete_system_setting",
             "list_users", "toggle_user_active"}

\* C5: for a caller who is no admin, the five admin routes return 403 'Admin
\* access required', whatever the body and whether or not the target exists,
\* and leave the settings and the users unchanged.
C5_AdminOnlyMutations ==
    [][(resp'.op \in AdminOps /\ ~(\E r \in users : r.id = resp'.user /\ r.is_admin))
          => /\ resp'.status = 403
             /\ resp'.error = "Admin access required"
             /\ resp'.body = {}
             /\ UNCHANGED <<settings, users>>]_vars

\* a non-admin sent an invalid body for a setting that does not exist, while
\* another setting does
C5_Witness ==
    /\ resp.op = "update_system_setting"
    /\ ~(\E r \in users : r.id = resp.user /\ r.is_admin)
    /\ ~NonBlank(resp.content)
    /\ settings # {}
    /\ ~(\E st \in settings : st.id = resp.target)
    /\ resp.status = 403

\* C6: the read routes under /system return a setting only to an admin.
C6_SettingsReadAdminOnly ==
    (resp.op \in {"get_system_settings", "get_system_setting_by_key"}
        /\ ~(\E r \in users : r.id = resp.user /\ r.is_admin))
       => resp.body = {}

ChatOps == {"send_message", "stream_message"}

\* the content of the instructions of user u
InstructionContentsOf(u) == {i.content : i \in {j \in instructions : j.user_id = u}}

\* C7: in send_message and stream_message alike, a custom_instruction_id that
\* names no instruction of the caller is answered 404 'Custom instruction not
\* found' with no message persisted and no AI call; and the system prompt of
\* a call is the default one or an instruction of the caller.
C7_ForeignInstructionRejected ==
    [][/\ (/\ resp'.op \in ChatOps
           /\ NonBlank(resp'.content)
           /\ OwnConversation(resp'.user, resp'.target) # {}
           /\ Truthy(resp'.iid)
           /\ OwnInstruction(resp'.user, resp'.iid) = {})
          => /\ resp'.status = 404
             /\ resp'.error = "Custom instruction not found"
             /\ resp'.ai_calls = 0
             /\ UNCHANGED messages
       /\ (resp'.op \in ChatOps /\ resp'.ai_calls > 0)
          => resp'.prepared[1].content \in {DefaultSystem} \cup InstructionContentsOf(resp'.user)
      ]_vars

\* C8: every stored message refers to an existing conversation, and after a
\* successful delete_conversation no message of that conversation remains.
C8_NoOrphanMessages ==
    /\ \A m \in MsgRows(messages) : \E c \in conversations : c.id = m.conversation_id
    /\ (resp.op = "delete_conversation" /\ resp.status = 200)
          => /\ MessagesOf(messages, resp.target) = <<>>
             /\ ~(\E c \in conversations : c.id = resp.target)

\* a conversation was deleted with its messages while another one keeps its own
C8_Witness ==
    /\ resp.op = "delete_conversation"
    /\ resp.status = 200
    /\ resp.body # {}
    /\ messages # <<>>

DefaultsOf(rows, u) == {i \in rows : i.user_id = u /\ i.is_default}

InstructionOps == {"create_custom_instruction", "update_custom_instruction",
                   "set_default_instruction", "delete_custom_instruction"}

\* C9: after any of the instruction routes each user has at most one default
\* instruction; after a successful set_default_instruction(I), I is the
\* caller's only default; and no route changes is_default on an instruction
\* of another user.
C9_OneDefaultPerUser ==
    [][resp'.op \in InstructionOps
          => /\ \A r \in users : Cardinality(DefaultsOf(instructions', r.id)) <= 1
             /\ (resp'.op = "set_default_instruction" /\ resp'.status = 200)
                   => {i.id : i \in DefaultsOf(instructions', resp'.user)} = {resp'.iid}
             /\ \A i \in instructions :
                   i.user_id # resp'.user
                      => \E j \in instructions' : j.id = i.id /\ j.is_default = i.is_default
      ]_vars

\* a user with two instructions made one the default while another user has
\* a default of their own
C9_Witness ==
    /\ resp.op = "set_default_instruction"
    /\ resp.status = 200
    /\ Cardinality({i \in instructions : i.user_id = resp.user}) >= 2
    /\ \E i \in instructions : i.user_id # resp.user /\ i.is_default

\* C10: no two stored settings have the same key, and create_system_setting
\* answers 409 and stores nothing whenever the stripped key of a valid body is
\* the key of an existing setting.
C10_KeysUnique ==
    [][/\ \A a, b \in settings' : a.id # b.id => a.key # b.key
       /\ (/\ resp'.op = "create_system_setting"
           /\ (\E r \in users : r.id = resp'.user /\ r.is_admin)
           /\ resp'.status # 400
           /\ \E st \in settings : st.key = strip(resp'.content))
          => /\ resp'.status = 409
             /\ settings' = settings
      ]_vars

\* an account other than u holds this email
EmailOfAnother(u, email) == \E r \in users : r.email = email /\ r.id # u

\* no two accounts share a username and no two share an email
UniqueAccounts ==
    \A r1, r2 \in users :
        (r1.username = r2.username \/ r1.email = r2.email) => r1 = r2

\* C11 as stated: no two users share a username and no two share an email;
\* register returns 409 and creates no user whenever the username or the email
\* is already taken; update_profile returns 409 and leaves the email unchanged
\* when the email belongs to a different user, and succeeds with one's own.
C11_TakenAlwaysConflict ==
    /\ []UniqueAccounts
    /\ [][/\ (/\ resp'.op = "register"
              /\ \E r \in users : r.username = resp'.username \/ r.email = resp'.email)
             => (resp'.status = 409 /\ users' = users)
          /\ (resp'.op = "update_profile" /\ EmailOfAnother(resp'.user, resp'.email))
             => (resp'.status = 409 /\ users' = users)
          /\ (/\ resp'.op = "update_profile"
              /\ \E r \in users : r.id = resp'.user /\ r.email = resp'.email
              /\ resp'.email # None)
             => (resp'.status = 200 /\ users' = users)]_vars

\* C11, amended: no two users share a username and no two share an email;
\* register with a body that passes RegisterSchema returns 409 and creates no
\* user when the username or the email is already taken (a body that fails the
\* schema gets 400 'Validation error' and creates no user either);
\* update_profile returns 409 and leaves the email unchanged when the email
\* belongs to a different user, and succeeds with one's own.
C11_UniqueAccounts ==
    /\ []UniqueAccounts
    /\ [][/\ (/\ resp'.op = "register"
              /\ \E r \in users : r.username = resp'.username \/ r.email = resp'.email)
             => /\ users' = users
                /\ IF RegisterSchema(resp'.username, resp'.email, resp'.password)
                   THEN resp'.status = 409
                   ELSE resp'.status = 400 /\ resp'.error = "Validation error"
          /\ (resp'.op = "update_profile" /\ EmailOfAnother(resp'.user, resp'.email))
             => (resp'.status = 409 /\ users' = users)
          /\ (/\ resp'.op = "update_profile"
              /\ \E r \in users : r.id = resp'.user /\ r.email = resp'.email
              /\ resp'.email # None)
             => (resp'.status = 200 /\ users' = users)]_vars

\* a user asked for the email of an account that was registered after set-up,
\* and was refused
C11_Witness ==
    /\ resp.op = "update_profile"
    /\ resp.status = 409
    /\ \E r \in users : r.id > 2 /\ r.email = resp.email /\ r.username = EveName

\* the account these credentials belong to: its username and its password
AccountOf(username, password) ==
    {r \in users : r.username = username /\ r.password_hash = set_password(password)}

\* C12 as stated: while an account is disabled, login with its credentials
\* returns 401 'Account is disabled' and refresh returns 404, and neither
\* issues a token; login with a wrong password or an unknown username always
\* returns 401 'Invalid credentials' and issues no token.
C12_WrongPasswordUnauthorized ==
    [][/\ (/\ resp'.op = "login"
           /\ \E r \in AccountOf(resp'.username, resp'.password) : ~r.is_active)
          => /\ resp'.status = 401 /\ resp'.error = "Account is disabled"
             /\ resp'.issued = {} /\ tokens' = tokens
       /\ (resp'.op = "refresh" /\ \E r \in users : r.id = resp'.user /\ ~r.is_active)
          => /\ resp'.status = 404
             /\ resp'.issued = {} /\ tokens' = tokens
       /\ (resp'.op = "login" /\ AccountOf(resp'.username, resp'.password) = {})
          => /\ resp'.status = 401 /\ resp'.error = "Invalid credentials"
             /\ resp'.issued = {} /\ tokens' = tokens]_vars

\* C12, amended: while an account is disabled, login with its credentials
\* returns 401 'Account is disabled' and refresh returns 404, and neither
\* issues a token; login with a wrong password or an unknown username issues
\* no token and returns 401 'Invalid credentials', or 400 'Validation error'
\* when the body fails LoginSchema (a password shorter than 6, a missing field).
C12_DisabledGetsNoToken ==
    [][/\ (/\ resp'.op = "login"
           /\ \E r \in AccountOf(resp'.username, resp'.password) : ~r.is_active)
          => /\ resp'.status = 401 /\ resp'.error = "Account is disabled"
             /\ resp'.issued = {} /\ tokens' = tokens
       /\ (resp'.op = "refresh" /\ \E r \in users : r.id = resp'.user /\ ~r.is_active)
          => /\ resp'.status = 404
             /\ resp'.issued = {} /\ tokens' = tokens
       /\ (resp'.op = "login" /\ AccountOf(resp'.username, resp'.password) = {})
          => /\ IF LoginSchema(resp'.username, resp'.password)
                THEN resp'.status = 401 /\ resp'.error = "Invalid credentials"
                ELSE resp'.status = 400 /\ resp'.error = "Validation error"
             /\ resp'.issued = {} /\ tokens' = tokens]_vars

\* an account that logged in earlier and was then disabled presents its
\* credentials again and is refused
C12_Witness ==
    /\ resp.op = "login"
    /\ resp.error = "Account is disabled"
    /\ \E r \in AccountOf(resp.username, resp.password) :
          ~r.is_active /\ [kind |-> "refresh", identity |-> r.id] \in tokens

\* a field that is missing or made of whitespace only
Blank(x) == x = None \/ \A i \in 1..Len(x) : x[i] = " "

\* a field that is missing or shorter than n characters
Short(x, n) == x = None \/ Len(x) < n

\* the body of the request fails the schema of its route
FailsSchema(r) ==
    \/ /\ r.op \in {"create_conversation", "update_conversation_title",
                    "send_message", "stream_message"}
       /\ Blank(r.content)
    \/ /\ r.op \in {"create_custom_instruction", "update_custom_instruction"}
       /\ (Blank(r.name) \/ Blank(r.content))
    \/ /\ r.op = "register"
       /\ (Short(r.username, 3) \/ Short(r.password, 6) \/ r.email = None)
    \/ /\ r.op = "change_password"
       /\ (Short(r.password, 6) \/ r.current_password = None)

\* C13: a request whose body fails the schema gets 400 'Validation error',
\* the store is unchanged and the AI provider is not called, in each of
\* create_conversation, update_conversation_title, send_message,
\* stream_message, create_custom_instruction, update_custom_instruction,
\* register and change_password; send_message and stream_message answer 400
\* also when the conversation does not exist or belongs to another user.
C13_ValidationFirst ==
    [][FailsSchema(resp')
       => /\ resp'.status = 400
          /\ resp'.error = "Validation error"
          /\ resp'.ai_calls = 0
          /\ resp'.events = <<>>
          /\ UNCHANGED <<users, conversations, messages, instructions, settings, tokens>>]_vars

\* a blank message was streamed at a conversation of another user that holds
\* messages, after an instruction and an account were created
C13_Witness ==
    /\ resp.op = "stream_message"
    /\ Blank(resp.content)
    /\ resp.status = 400
    /\ NotOwnedBy(resp.user, resp.target)
    /\ MessagesOf(messages, resp.target) # <<>>
    /\ instructions # {}
    /\ Cardinality(users) > 2

\* the data events among the events sent to the client
DataEvents(events) == SelectSeq(events, LAMBDA e : e.type = "data")

\* the terminal events among the events sent to the client
TerminalEvents(events) == SelectSeq(events, LAMBDA e : e.type \in {"DONE", "ERROR"})

\* the chunks the client was sent, in the order it was sent them
ForwardedChunks(events) == [i \in 1..Len(DataEvents(events)) |-> DataEvents(events)[i].data]

\* the user message of the streamed turn is stored
UserMessageStored(msgs) ==
    \E m \in MsgRows(msgs) :
        m.id = stream.message_id /\ m.conversation_id = stream.cid /\ m.role = "user"

\* the assistant messages stored after the user message of the streamed turn
RepliesStored(msgs) ==
    {m \in MsgRows(msgs) :
        m.id > stream.message_id /\ m.conversation_id = stream.cid /\ m.role = "assistant"}

\* C14: in a streamed turn the user message is committed before the first
\* chunk is emitted; the data events are the provider's chunks with non-None
\* content, each once and in the provider's order; and '[DONE]' is emitted only
\* after an assistant message whose content is the concatenation of the
\* forwarded chunks has been committed.
C14_StreamOrder ==
    /\ [](stream.pc # "none" => UserMessageStored(messages))
    /\ [](DataEvents(stream.events) =
            [i \in 1..Len(stream_response(stream.received)) |->
                DataEvent(stream_response(stream.received)[i])])
    /\ [][(stream'.events # stream.events /\ stream'.pc # "none")
          => /\ UserMessageStored(messages)
             /\ Len(stream'.events) = Len(stream.events) + 1
             /\ (Last(stream'.events) = DoneEvent
                 => /\ \E m \in RepliesStored(messages) :
                          m.content = Concat(ForwardedChunks(stream.events))
                    /\ messages' = messages)]_vars

\* two chunks were forwarded around one without content, and '[DONE]' followed
C14_Witness ==
    /\ stream.pc = "done"
    /\ Len(stream.received) > Len(DataEvents(stream.events))
    /\ Len(DataEvents(stream.events)) > 0
    /\ Last(stream.events) = DoneEvent

\* C15: a stream that runs to its end has exactly one terminal event, '[DONE]'
\* or '[ERROR]', as its last event, and no stream has both; when the provider
\* fails, before the first chunk or after some, the stream ends in '[ERROR]',
\* no assistant message is stored for the turn, and the user message
\* committed at the start stays stored, whereas a failed send_message leaves
\* no message at all.
C15_OneTerminalEvent ==
    /\ [](Len(TerminalEvents(stream.events)) <= 1)
    /\ [](stream.pc = "done"
          => /\ Len(TerminalEvents(stream.events)) = 1
             /\ Last(stream.events).type \in {"DONE", "ERROR"})
    /\ [](stream.failed
          => /\ Last(stream.events) = ErrorEvent
             /\ RepliesStored(messages) = {}
             /\ UserMessageStored(messages))
    /\ [][(resp'.op = "send_message" /\ resp'.fails) => messages' = messages]_vars

\* the provider failed after a chunk had been forwarded
C15_Witness ==
    /\ stream.pc = "done"
    /\ stream.failed
    /\ Len(DataEvents(stream.events)) > 0

\* the rows of a conversation as they are stored, oldest first
StoredIn(cid) == SelectSeq(messages, LAMBDA m : m.conversation_id = cid)

\* the stored rows of a conversation as role and content, then the new user message
TurnContext(cid, content) ==
    [i \in 1..(Len(StoredIn(cid)) + 1) |->
        IF i <= Len(StoredIn(cid))
        THEN [role |-> StoredIn(cid)[i].role, content |-> StoredIn(cid)[i].content]
        ELSE [role |-> "user", content |-> content]]

\* C16: when send_message or stream_message calls the provider, the messages
\* it passes after the system message are the conversation's previously
\* stored messages in creation order, as role and content, followed by the new
\* user message; no message of another conversation is among them and the
\* new user message is there once, as the last element.
C16_ContextIsHistoryThenMessage ==
    [][(resp'.op \in {"send_message", "stream_message"} /\ resp'.ai_calls = 1)
       => /\ Head(resp'.prepared).role = "system"
          /\ Tail(resp'.prepared) = TurnContext(resp'.target, resp'.content)
          /\ Last(resp'.prepared) = [role |-> "user", content |-> resp'.content]
          /\ Len(resp'.prepared) = Len(StoredIn(resp'.target)) + 2]_vars

\* a turn in a conversation that already held a message, while another
\* conversation exists
C16_Witness ==
    /\ resp.op = "send_message"
    /\ resp.ai_calls = 1
    /\ Len(resp.prepared) = 3
    /\ resp.prepared[2].content # resp.prepared[3].content
    /\ \E c \in conversations : c.id # resp.target

====
